---- MODULE Spec2Model ----
(***************************************************************************)
(* License enforcement and entitlement engine of the Indian SMB ERP        *)
(* (src/license/license_manager.py) over the SQLite license table          *)
(* (src/database/db_init.py), with the session, the role permissions       *)
(* (src/core/auth.py, src/core/permissions.py) and the application shell   *)
(* (src/core/app.py, src/ui/activation.py), modelled as a state machine.   *)
(*                                                                         *)
(* Text is modelled as a sequence of one-character strings, a date object  *)
(* as a day ordinal (days since 1 January of EpochYear), and the ISO text  *)
(* of a date ("YYYY-MM-DD") as the triple <<year, month, day>>.            *)
(* An optional value (Python None or a value) is a sequence of length 0    *)
(* or 1.                                                                   *)
(***************************************************************************)
EXTENDS Integers, Sequences, FiniteSets, TLC

VARIABLES
    db,        \* license table as the shared connection sees it (uncommitted changes included)
    disk,      \* license table as committed to the database file
    lic,       \* LicenseManager._license: <<>> (None) or <<cached row>>
    machine,   \* host components read by MachineFingerprint.generate
    today,     \* date.today(), as a day ordinal
    ticks,     \* number of clock advances taken (bounds the run)
    audit,     \* rows of audit_logs, oldest first
    result,    \* outcome of the call made by the last step
    users,          \* users table (every write to it is committed at once)
    permissions,    \* permissions table: a set of rows, at most one per (role_id, module)
    session,        \* Session singleton: <<>> (user is None) or <<[user, role_id, role_name]>>
    screen,         \* window the application shows: "starting", "activation", "login", "main"
    sidebar,        \* modules that have a navigation button in the sidebar
    active_module   \* ERPApplication.active_module: <<>> (None) or <<name>>

appVars == <<users, permissions, session, screen, sidebar, active_module>>

vars == <<db, disk, lic, machine, today, ticks, audit, result, appVars>>

----------------------------------------------------------------------------
(* Bounds of the model *)

MaxRecords == 2
MaxTicks == 1
MaxAudit == 1
MaxUsers == 2
MaxLog == 3

----------------------------------------------------------------------------
(* Text *)

LowerLetters ==
    <<"a","b","c","d","e","f","g","h","i","j","k","l","m",
      "n","o","p","q","r","s","t","u","v","w","x","y","z">>

UpperLetters ==
    <<"A","B","C","D","E","F","G","H","I","J","K","L","M",
      "N","O","P","Q","R","S","T","U","V","W","X","Y","Z">>

Digits == {"0","1","2","3","4","5","6","7","8","9"}

\* str.upper() on one character
UpperChar(c) ==
    IF \E i \in 1..26 : LowerLetters[i] = c
    THEN UpperLetters[CHOOSE i \in 1..26 : LowerLetters[i] = c]
    ELSE c

\* the character U+00DF (LATIN SMALL LETTER SHARP S), written by its code point
SharpS == "U+00DF"

\* str.upper() of a one-character text: U+00DF uppercases to the two characters "SS"
UpperOf(c) == IF c = SharpS THEN <<"S", "S">> ELSE <<UpperChar(c)>>

\* str.upper()
RECURSIVE Upper(_)
Upper(s) == IF s = <<>> THEN <<>> ELSE UpperOf(Head(s)) \o Upper(Tail(s))

\* str.replace('-', '')
RECURSIVE RemoveHyphens(_)
RemoveHyphens(s) ==
    IF s = <<>> THEN <<>>
    ELSE IF Head(s) = "-" THEN RemoveHyphens(Tail(s))
    ELSE <<Head(s)>> \o RemoveHyphens(Tail(s))

\* the character class [A-Z0-9]
IsUpperAlnum(c) == c \in Digits \/ \E i \in 1..26 : UpperLetters[i] = c

Whitespace == {" ", "\t", "\n"}

\* str.strip()
RECURSIVE Strip(_)
Strip(s) ==
    IF s = <<>> THEN <<>>
    ELSE IF Head(s) \in Whitespace THEN Strip(Tail(s))
    ELSE IF s[Len(s)] \in Whitespace THEN Strip(SubSeq(s, 1, Len(s) - 1))
    ELSE s

\* '|'.join(components)
RECURSIVE JoinPipe(_)
JoinPipe(components) ==
    IF components = <<>> THEN <<>>
    ELSE IF Len(components) = 1 THEN components[1]
    ELSE components[1] \o <<"|">> \o JoinPipe(Tail(components))

\* dict.get(k, default)
Get(d, k, default) == IF k \in DOMAIN d THEN d[k] ELSE default

\* json.dumps of a list of strings or of a dict: the JSON text, kept as a tagged value
JsonDumps(list) == <<"json", list>>

\* json.loads of the text written by JsonDumps
JsonLoads(text) == text[2]

----------------------------------------------------------------------------
(* Dates *)

EpochYear == 2026

IsLeap(y) == (y % 4 = 0 /\ y % 100 # 0) \/ y % 400 = 0

DaysInYear(y) == IF IsLeap(y) THEN 366 ELSE 365

DaysInMonth(y, m) ==
    IF m = 2 THEN (IF IsLeap(y) THEN 29 ELSE 28)
    ELSE IF m \in {4, 6, 9, 11} THEN 30 ELSE 31

RECURSIVE SplitYear(_, _)
SplitYear(y, n) ==
    IF n >= DaysInYear(y) THEN SplitYear(y + 1, n - DaysInYear(y)) ELSE <<y, n>>

RECURSIVE SplitMonth(_, _, _)
SplitMonth(y, m, n) ==
    IF n >= DaysInMonth(y, m) THEN SplitMonth(y, m + 1, n - DaysInMonth(y, m))
    ELSE <<y, m, n + 1>>

\* date.isoformat(): the year, month and day fields of "YYYY-MM-DD"
IsoFormat(ordinal) ==
    LET yn == SplitYear(EpochYear, ordinal) IN SplitMonth(yn[1], 1, yn[2])

RECURSIVE DaysBeforeYear(_)
DaysBeforeYear(y) ==
    IF y <= EpochYear THEN 0 ELSE DaysInYear(y - 1) + DaysBeforeYear(y - 1)

RECURSIVE DaysBeforeMonth(_, _)
DaysBeforeMonth(y, m) ==
    IF m <= 1 THEN 0 ELSE DaysInMonth(y, m - 1) + DaysBeforeMonth(y, m - 1)

\* datetime.strptime(text, '%Y-%m-%d').date()
StrpDate(iso) == DaysBeforeYear(iso[1]) + DaysBeforeMonth(iso[1], iso[2]) + iso[3] - 1

----------------------------------------------------------------------------
(* Machine fingerprint *)

\* components read from the host: node name, machine type, processor, uuid.getnode()
HostA == << <<"p","c","1">>, <<"x","6","4">>, <<"i","7">>, <<"1","7">> >>
HostB == << <<"p","c","2">>, <<"x","6","4">>, <<"i","7">>, <<"2","9">> >>

Machines == {HostA, HostB}

\* hashlib.sha256(text).hexdigest()[:32], taken as collision-free on the modelled texts
Sha256Hex32(text) == <<"sha256", text>>

\* MachineFingerprint.generate() on a host with the given components
Generate(components) == Sha256Hex32(JoinPipe(components))

\* variant of Verify that accepts any stored fingerprint
Verify_AnyMachine(components, stored_fingerprint) == TRUE

\* MachineFingerprint.verify(stored) on a host with the given components
Verify(components, stored_fingerprint) == Generate(components) = stored_fingerprint

----------------------------------------------------------------------------
(* License plans *)

TRIAL == "TRIAL"
BASIC == "BASIC"
PRO == "PRO"
ENTERPRISE == "ENTERPRISE"

Modules ==
    {"dashboard", "billing", "inventory", "customers", "vendors",
     "accounts", "reports", "settings", "users"}

PLAN_CONFIG ==
    [p \in {TRIAL, BASIC, PRO, ENTERPRISE} |->
        CASE p = TRIAL ->
                [name |-> "Trial", max_users |-> 1,
                 modules |-> <<"dashboard", "billing", "inventory">>,
                 duration_days |-> 30, price |-> 0]
          [] p = BASIC ->
                [name |-> "Basic ERP", max_users |-> 1,
                 modules |-> <<"dashboard", "billing", "inventory", "customers">>,
                 duration_days |-> 365, price |-> 4999]
          [] p = PRO ->
                [name |-> "Pro ERP", max_users |-> 3,
                 modules |-> <<"dashboard", "billing", "inventory", "customers",
                               "vendors", "accounts", "reports">>,
                 duration_days |-> 365, price |-> 9999]
          [] p = ENTERPRISE ->
                [name |-> "Enterprise ERP", max_users |-> 999,
                 modules |-> <<"dashboard", "billing", "inventory", "customers",
                               "vendors", "accounts", "reports", "settings", "users">>,
                 duration_days |-> 365, price |-> 24999]]

----------------------------------------------------------------------------
(* License keys *)

MkKey(g1, g2, g3, g4) == g1 \o <<"-">> \o g2 \o <<"-">> \o g3 \o <<"-">> \o g4

KeyBasic == MkKey(<<"B","A","S","I">>, <<"0","0","0","0">>, <<"0","0","0","0">>, <<"0","0","0","1">>)
KeyBasicLower == MkKey(<<"b","a","s","i">>, <<"0","0","0","0">>, <<"0","0","0","0">>, <<"0","0","0","1">>)
KeyPro == MkKey(<<"P","R","O","F">>, <<"A","B","1","2">>, <<"C","D","3","4">>, <<"E","F","5","6">>)
KeyShort == <<"B","A","S","I">> \o <<"-">> \o <<"0","0","0","0">> \o <<"-">> \o <<"0","0","0","0">>
KeyProLower == MkKey(<<"p","r","o","f">>, <<"a","b","1","2">>, <<"c","d","3","4">>, <<"e","f","5","6">>)
KeyEnterprise == MkKey(<<"E","N","T","R">>, <<"0","0","0","0">>, <<"0","0","0","0">>, <<"0","0","0","2">>)
KeyTrial == MkKey(<<"T","R","I","A">>, <<"0","0","0","0">>, <<"0","0","0","0">>, <<"0","0","0","3">>)
KeyOther == MkKey(<<"Z","Z","9","9">>, <<"0","0","0","0">>, <<"0","0","0","0">>, <<"0","0","0","4">>)
KeyNoHyphens == RemoveHyphens(KeyPro)
KeyNewline == KeyBasic \o <<"\n">>
KeySharpS == MkKey(<<SharpS,"A","S">>, <<"0","0","0","0">>, <<"0","0","0","0">>, <<"0","0","0","5">>)

\* keys a user types into the activation window
TypedKeys == {KeyBasic, KeyBasicLower, KeyShort}

\* keys passed to activate: one per plan code, an unknown code, a lowercase key, and
\* texts that are not four groups of four characters
EnteredKeys ==
    {KeyPro, KeyProLower, KeyEnterprise, KeyTrial, KeyOther,
     <<>>, KeyShort, KeyNoHyphens, KeyNewline, KeySharpS}

\* outcomes of random.choices(ascii_uppercase + digits, k=12) in generate_license_key
RandomParts ==
    { <<"Q","7","Z","K","0","M","4","X","A","9","P","2">>,
      <<"8","L","D","3","W","Y","1","R","6","T","U","5">> }

\* re.match(r'^[A-Z0-9]{4}-[A-Z0-9]{4}-[A-Z0-9]{4}-[A-Z0-9]{4}$', key.upper());
\* '$' also matches before one trailing newline
_validate_key_format(key) ==
    LET u == Upper(key) IN
    /\ Len(u) = 19 \/ (Len(u) = 20 /\ u[20] = "\n")
    /\ \A i \in 1..19 : IF i \in {5, 10, 15} THEN u[i] = "-" ELSE IsUpperAlnum(u[i])

\* variant of plan_codes whose fallback is the trial plan
plan_codes_TrialFallback(code) ==
    CASE code = <<"T","R","I","A">> -> TRIAL
      [] code = <<"B","A","S","I">> -> BASIC
      [] code = <<"P","R","O","F">> -> PRO
      [] code = <<"E","N","T","R">> -> ENTERPRISE
      [] OTHER -> TRIAL

plan_codes(code) ==
    CASE code = <<"T","R","I","A">> -> TRIAL
      [] code = <<"B","A","S","I">> -> BASIC
      [] code = <<"P","R","O","F">> -> PRO
      [] code = <<"E","N","T","R">> -> ENTERPRISE
      [] OTHER -> BASIC

\* None (<<>>) or the decoded dict
_decode_license_key(key) ==
    LET k == RemoveHyphens(Upper(key)) IN
    IF Len(k) # 16 THEN <<>>
    ELSE << [plan |-> plan_codes(SubSeq(k, 1, 4))] >>

plan_code_of(plan) ==
    CASE plan = TRIAL -> <<"T","R","I","A">>
      [] plan = BASIC -> <<"B","A","S","I">>
      [] plan = PRO -> <<"P","R","O","F">>
      [] plan = ENTERPRISE -> <<"E","N","T","R">>
      [] OTHER -> <<"B","A","S","I">>

generate_license_key(plan, random_part) ==
    LET key == plan_code_of(plan) \o random_part IN
    MkKey(SubSeq(key, 1, 4), SubSeq(key, 5, 8), SubSeq(key, 9, 12), SubSeq(key, 13, 16))

----------------------------------------------------------------------------
(* License table and the manager's cached license *)

\* columns of CREATE TABLE license
LicenseColumns ==
    {"id", "license_key", "machine_fingerprint", "plan_type", "max_users",
     "enabled_modules", "activation_date", "expiry_date", "is_active",
     "grace_period_days"}

\* members defined on class LicenseManager
LicenseManagerMembers ==
    {"_load_license", "is_activated", "is_valid", "check_remote_revocation",
     "revoke_license", "plan_type", "plan_name", "max_users",
     "get_enabled_modules", "is_module_enabled", "get_status", "activate",
     "_validate_key_format", "_decode_license_key", "generate_license_key",
     "start_trial"}

\* SELECT * FROM license WHERE is_active = 1 ORDER BY id DESC LIMIT 1
ActiveRow(rows) ==
    LET act == {i \in DOMAIN rows : rows[i].is_active = 1} IN
    IF act = {} THEN <<>>
    ELSE << rows[CHOOSE i \in act : \A j \in act : rows[j].id <= rows[i].id] >>

\* _load_license: the cached license after loading from rows; kept as it was when no row is active
_load_license(rows, old) ==
    LET row == ActiveRow(rows) IN
    IF row = <<>> THEN old
    ELSE << row[1] @@ ("modules_list" :> JsonLoads(row[1].enabled_modules)) >>

is_activated(l) == l # <<>>

\* variant of is_valid that ignores the grace period
is_valid_NoGrace(l, components, day) ==
    IF l = <<>> THEN FALSE
    ELSE IF Get(l[1], "is_revoked", 0) # 0 THEN FALSE
    ELSE IF ~Verify(components, l[1].machine_fingerprint) THEN FALSE
    ELSE IF day > StrpDate(l[1].expiry_date) THEN FALSE
    ELSE TRUE

is_valid(l, components, day) ==
    IF l = <<>> THEN FALSE
    ELSE IF Get(l[1], "is_revoked", 0) # 0 THEN FALSE
    ELSE IF ~Verify(components, l[1].machine_fingerprint) THEN FALSE
    ELSE IF day > StrpDate(l[1].expiry_date) + Get(l[1], "grace_period_days", 7) THEN FALSE
    ELSE TRUE

plan_type(l) == IF l # <<>> THEN Get(l[1], "plan_type", "NONE") ELSE "NONE"

plan_name(l) ==
    IF plan_type(l) \in DOMAIN PLAN_CONFIG THEN PLAN_CONFIG[plan_type(l)].name
    ELSE "No License"

max_users(l) == IF l # <<>> THEN Get(l[1], "max_users", 1) ELSE 1

get_enabled_modules(l) == IF l = <<>> THEN <<>> ELSE Get(l[1], "modules_list", <<>>)

\* variant of is_module_enabled that skips the validity check
is_module_enabled_Unchecked(l, components, day, module) ==
    \E i \in DOMAIN get_enabled_modules(l) : get_enabled_modules(l)[i] = module

is_module_enabled(l, components, day, module) ==
    IF ~is_valid(l, components, day) THEN FALSE
    ELSE \E i \in DOMAIN get_enabled_modules(l) : get_enabled_modules(l)[i] = module

----------------------------------------------------------------------------
(* Outcomes of calls *)

NoCall == [op |-> "none", raised |-> "", message |-> "", value |-> <<>>]

----------------------------------------------------------------------------
(* LicenseManager operations, as effects on (db, disk, lic) *)

\* get_status: the snapshot, or the exception raised while building it
get_status(l, components, day) ==
    IF ~({"is_activated", "is_valid"} \subseteq LicenseManagerMembers)
       \/ "is_expired" \notin LicenseManagerMembers
       \/ "days_remaining" \notin LicenseManagerMembers
    THEN [raised |-> "AttributeError", value |-> <<>>]
    ELSE [raised |-> "",
          value |-> << [activated |-> is_activated(l),
                        valid |-> is_valid(l, components, day),
                        plan |-> plan_type(l),
                        plan_name |-> plan_name(l),
                        max_users |-> max_users(l),
                        modules |-> get_enabled_modules(l),
                        machine_bound |-> l # <<>>] >>]

\* variant of DeactivateAll that leaves the rows as they are
DeactivateAll_Skipped(rows) == rows

\* variant of DeactivateAll that deletes the rows (DELETE FROM license)
DeactivateAll_Deleting(rows) == <<>>

\* variant of DeactivateAll that flips the flag of every row
DeactivateAll_Flipped(rows) ==
    [i \in DOMAIN rows |-> [rows[i] EXCEPT !.is_active = 1 - @]]

\* UPDATE license SET is_active = 0
DeactivateAll(rows) == [i \in DOMAIN rows |-> [rows[i] EXCEPT !.is_active = 0]]

\* variant of SelectByKey that looks among the active rows only
SelectByKey_ActiveOnly(rows, license_key) ==
    LET hit == {i \in DOMAIN rows : rows[i].license_key = license_key /\ rows[i].is_active = 1} IN
    IF hit = {} THEN <<>> ELSE << rows[CHOOSE i \in hit : \A j \in hit : i <= j] >>

\* SELECT machine_fingerprint FROM license WHERE license_key = ? (text compared byte for byte)
SelectByKey(rows, license_key) ==
    LET hit == {i \in DOMAIN rows : rows[i].license_key = license_key} IN
    IF hit = {} THEN <<>> ELSE << rows[CHOOSE i \in hit : \A j \in hit : i <= j] >>

\* the row activate prepares and inserts (id from AUTOINCREMENT)
license_record(rows, license_key, components, day) ==
    LET plan == _decode_license_key(license_key)[1].plan
        plan_config == PLAN_CONFIG[plan]
    IN [id |-> Len(rows) + 1,
        license_key |-> license_key,
        machine_fingerprint |-> Generate(components),
        plan_type |-> plan,
        max_users |-> plan_config.max_users,
        enabled_modules |-> JsonDumps(plan_config.modules),
        activation_date |-> IsoFormat(day),
        expiry_date |-> IsoFormat(day + plan_config.duration_days),
        is_active |-> 1,
        grace_period_days |-> 7]

\* activate(license_key): the tables and cache it leaves, and how it ends
ActivateEffect(license_key) ==
    LET existing == SelectByKey(db, license_key)
        same == [db |-> db, disk |-> disk, lic |-> lic]
    IN
    IF ~_validate_key_format(license_key)
    THEN same @@ [raised |-> "LicenseError", message |-> "Invalid license key format",
                  value |-> <<>>]
    ELSE IF _decode_license_key(license_key) = <<>>
    THEN same @@ [raised |-> "LicenseError", message |-> "Invalid or corrupted license key",
                  value |-> <<>>]
    ELSE IF existing # <<>> /\ existing[1].machine_fingerprint # Generate(machine)
    THEN same @@ [raised |-> "LicenseError",
                  message |-> "License already activated on another machine",
                  value |-> <<>>]
    ELSE IF \E i \in DOMAIN db : db[i].license_key = license_key
    THEN \* INSERT violates UNIQUE(license_key): the UPDATE stays pending, nothing is committed
         [db |-> DeactivateAll(db), disk |-> disk, lic |-> lic,
          raised |-> "IntegrityError", message |-> "UNIQUE constraint failed: license.license_key",
          value |-> <<>>]
    ELSE LET rows == Append(DeactivateAll(db),
                            license_record(db, license_key, machine, today))
             loaded == _load_license(rows, lic)
             status == get_status(loaded, machine, today)
         IN [db |-> rows, disk |-> rows, lic |-> loaded,
             raised |-> status.raised, message |-> "", value |-> status.value]

\* revoke_license(): the tables and cache it leaves, and how it ends
RevokeEffect ==
    IF lic = <<>>
    THEN [db |-> db, disk |-> disk, lic |-> lic, raised |-> "TypeError"]
    ELSE IF "is_revoked" \notin LicenseColumns
    THEN [db |-> db, disk |-> disk, lic |-> lic, raised |-> "OperationalError"]
    ELSE LET rows == [i \in DOMAIN db |->
                        IF db[i].id = lic[1].id
                        THEN ("is_active" :> 0) @@ ("is_revoked" :> 1) @@ db[i]
                        ELSE db[i]]
         IN [db |-> rows, disk |-> rows, lic |-> <<>>, raised |-> ""]

\* responses of requests.get(revocation_url, timeout=5): status 0 stands for a network
\* error or timeout, json_ok for a body that response.json() parses into the feed's shape
Response(status, json_ok, revoked_keys, revoked_machines) ==
    [status |-> status, json_ok |-> json_ok,
     revoked_keys |-> revoked_keys, revoked_machines |-> revoked_machines]

Responses ==
    { Response(0, FALSE, {}, {}),
      Response(404, TRUE, {KeyBasic}, {}),
      Response(200, FALSE, {}, {}),
      Response(200, TRUE, {}, {}),
      Response(200, TRUE, {KeyBasic}, {}),
      Response(200, TRUE, {}, {Generate(HostA)}) }

\* variant of CheckRevocationEffect without the try/except around the request
CheckRevocationEffect_Unguarded(revocation_url, response) ==
    LET same == [db |-> db, disk |-> disk, lic |-> lic, message |-> ""] IN
    IF lic = <<>> \/ revocation_url = <<>>
    THEN same @@ [raised |-> "", value |-> <<FALSE>>]
    ELSE IF response.status = 0
    THEN same @@ [raised |-> "ConnectionError", value |-> <<>>]
    ELSE IF response.status = 200 /\ ~response.json_ok
    THEN same @@ [raised |-> "JSONDecodeError", value |-> <<>>]
    ELSE same @@ [raised |-> "", value |-> <<FALSE>>]

\* check_remote_revocation(revocation_url): the tables and cache it leaves, what it
\* returns, and the line its except clause prints
CheckRevocationEffect(revocation_url, response) ==
    LET same == [db |-> db, disk |-> disk, lic |-> lic, raised |-> ""] IN
    IF lic = <<>> \/ ~is_activated(lic) \/ revocation_url = <<>>
    THEN same @@ [value |-> <<FALSE>>, message |-> ""]
    ELSE IF response.status = 0
    THEN same @@ [value |-> <<FALSE>>,
                  message |-> "Revocation check failed: ConnectionError"]
    ELSE IF response.status # 200
    THEN same @@ [value |-> <<FALSE>>, message |-> ""]
    ELSE IF ~response.json_ok
    THEN same @@ [value |-> <<FALSE>>,
                  message |-> "Revocation check failed: JSONDecodeError"]
    ELSE IF \/ lic[1].license_key \in response.revoked_keys
            \/ lic[1].machine_fingerprint \in response.revoked_machines
    THEN IF RevokeEffect.raised = ""
         THEN RevokeEffect @@ [value |-> <<TRUE>>, message |-> ""]
         ELSE \* the exception of revoke_license is caught by the except clause
              [db |-> RevokeEffect.db, disk |-> RevokeEffect.disk, lic |-> RevokeEffect.lic,
               raised |-> "", value |-> <<FALSE>>,
               message |-> "Revocation check failed: " \o RevokeEffect.raised]
    ELSE same @@ [value |-> <<FALSE>>, message |-> ""]

----------------------------------------------------------------------------
(* Roles, users, permissions and the session *)

\* roles table after _insert_default_data; a role's id is its position
Roles == <<"Admin", "Manager", "Accountant", "Sales", "Inventory">>

\* list(MODULES.keys())
MODULES ==
    <<"dashboard", "billing", "inventory", "customers", "vendors",
      "accounts", "reports", "settings", "users">>

\* ACTIONS (a reserved word of TLA+)
ACTION_NAMES == {"can_view", "can_create", "can_edit", "can_delete", "can_export"}

Admin123 == <<"a","d","m","i","n","1","2","3">>
Secret1 == <<"s","e","c","r","e","t","1">>
Short == <<"a","b","c">>
Five == <<"a","b","c","d","e">>

AdminName == <<"a","d","m","i","n">>
MeenaName == <<"m","e","e","n","a">>

\* bcrypt.hashpw(password, salt): the hash text carries the salt and determines the password
hash_password(password, salt) == <<"bcrypt", salt, password>>

\* bcrypt.checkpw(password, password_hash)
verify_password(password, password_hash) ==
    hash_password(password, password_hash[2]) = password_hash

\* users table after _insert_default_data
DefaultUsers ==
    << [id |-> 1, username |-> AdminName,
        password_hash |-> hash_password(Admin123, "salt0"),
        role_id |-> 1, is_active |-> 1] >>

\* a permissions row
PermissionRow(role_id, module, flags) ==
    [role_id |-> role_id, module |-> module,
     can_view |-> flags.can_view, can_create |-> flags.can_create,
     can_edit |-> flags.can_edit, can_delete |-> flags.can_delete,
     can_export |-> flags.can_export]

\* permissions table after _insert_default_data: every module granted in full to Admin
DefaultPermissions ==
    { PermissionRow(1, MODULES[i], [a \in ACTION_NAMES |-> 1]) : i \in DOMAIN MODULES }

\* User.get_by_username: None (<<>>) or the row joined with its role's name
get_by_username(username) ==
    LET hit == {i \in DOMAIN users : users[i].username = username} IN
    IF hit = {} THEN <<>>
    ELSE LET u == users[CHOOSE i \in hit : TRUE] IN
         << u @@ ("role_name" :> Roles[u.role_id]) >>

\* User.get_by_id: None (<<>>) or the row
get_by_id(user_id) ==
    LET hit == {i \in DOMAIN users : users[i].id = user_id} IN
    IF hit = {} THEN <<>> ELSE << users[CHOOSE i \in hit : TRUE] >>

\* User.update(id, data): the users table with the columns of data replaced in the row
\* of that id; no row changes when the id is unknown
UserUpdate(user_id, data) ==
    [i \in DOMAIN users |->
        IF users[i].id = user_id
        THEN [c \in DOMAIN users[i] |-> Get(data, c, users[i][c])]
        ELSE users[i]]

is_authenticated == session # <<>>

\* variant of Permission_check_permission that grants when the role has no row
Permission_check_permission_OpenDefault(role_id, module, action) ==
    LET rows == {r \in permissions : r.role_id = role_id /\ r.module = module} IN
    IF rows = {} THEN TRUE ELSE (CHOOSE r \in rows : TRUE)[action] # 0

\* Permission.check_permission: SELECT <action> FROM permissions WHERE role_id = ? AND module = ?
Permission_check_permission(role_id, module, action) ==
    LET rows == {r \in permissions : r.role_id = role_id /\ r.module = module} IN
    IF rows = {} THEN FALSE ELSE (CHOOSE r \in rows : TRUE)[action] # 0

\* variant of check_permission without the Admin shortcut
check_permission_TableOnly(module, action) ==
    IF ~is_authenticated THEN FALSE
    ELSE Permission_check_permission(session[1].role_id, module, action)

\* core.permissions.check_permission(module, action) for the current session
check_permission(module, action) ==
    IF ~is_authenticated THEN FALSE
    ELSE IF session[1].role_name = "Admin" THEN TRUE
    ELSE Permission_check_permission(session[1].role_id, module, action)

\* get_accessible_modules() for a session: the modules, without their order
get_accessible_modules(sess) ==
    IF sess = <<>> THEN {}
    ELSE IF sess[1].role_name = "Admin" THEN {MODULES[i] : i \in DOMAIN MODULES}
    ELSE {r.module : r \in {q \in permissions : q.role_id = sess[1].role_id /\ q.can_view # 0}}

\* the audit_logs row AuditLog.log(user_id, action, module, record_id, new_values=...)
\* inserts; None is <<>>, and new_values is stored as json.dumps of the dict when the
\* dict is given and not empty
AuditRow(user_id, action, module, record_id, new_values) ==
    [user_id |-> user_id, action |-> action, module |-> module, record_id |-> record_id,
     new_values |-> IF new_values = <<>> THEN <<>> ELSE << JsonDumps(new_values[1]) >>]

\* variant of LoginFailedRow that leaves the new_values out
LoginFailedRow_NoReason(user_id, new_values) ==
    AuditRow(user_id, "LOGIN_FAILED", "auth", <<>>, <<>>)

\* the row of a failed login: AuditLog.log(user_id, 'LOGIN_FAILED', 'auth',
\* new_values=...), where user_id is None for an unknown username
LoginFailedRow(user_id, new_values) ==
    AuditRow(user_id, "LOGIN_FAILED", "auth", <<>>, << new_values >>)

\* variant of Session_clear that keeps the session
Session_clear_Keeps == session

\* Session.clear(): user, role_id, role_name and login_time are set to None
Session_clear == <<>>

\* variant of LoginFailure that clears the session
LoginFailure_ClearsSession(message, user_id, new_values) ==
    [session |-> <<>>, raised |-> "AuthenticationError", message |-> message,
     value |-> <<>>, log |-> LoginFailedRow(user_id, new_values)]

\* a failing path of login: the audit row with the reason, then AuthenticationError
\* with the message; the session is not touched
LoginFailure(message, user_id, new_values) ==
    [session |-> session, raised |-> "AuthenticationError", message |-> message,
     value |-> <<>>, log |-> LoginFailedRow(user_id, new_values)]

\* the last path of login: the session is set from the user row, the LOGIN_SUCCESS
\* row is written and the user row is returned
LoginSuccess(user) ==
    [session |-> << [user |-> user, role_id |-> user.role_id,
                     role_name |-> user.role_name, login_time |-> today] >>,
     raised |-> "", message |-> "", value |-> <<user>>,
     log |-> AuditRow(<<user.id>>, "LOGIN_SUCCESS", "auth", <<>>, <<>>)]

\* variant of LoginEffect that tells an unknown username from a wrong password
LoginEffect_NamesUnknownUser(username, password) ==
    LET user == get_by_username(username) IN
    IF user = <<>>
    THEN LoginFailure("User not found", <<>>,
                      [username |-> username, reason |-> "user_not_found"])
    ELSE IF user[1].is_active = 0
    THEN LoginFailure("Account is disabled. Contact administrator.", <<user[1].id>>,
                      [reason |-> "account_disabled"])
    ELSE IF ~verify_password(password, user[1].password_hash)
    THEN LoginFailure("Invalid username or password", <<user[1].id>>,
                      [reason |-> "invalid_password"])
    ELSE LoginSuccess(user[1])

\* variant of LoginEffect that does not look at is_active
LoginEffect_NoActiveCheck(username, password) ==
    LET user == get_by_username(username) IN
    IF user = <<>>
    THEN LoginFailure("Invalid username or password", <<>>,
                      [username |-> username, reason |-> "user_not_found"])
    ELSE IF ~verify_password(password, user[1].password_hash)
    THEN LoginFailure("Invalid username or password", <<user[1].id>>,
                      [reason |-> "invalid_password"])
    ELSE LoginSuccess(user[1])

\* login(username, password): the session it leaves, how it ends and the audit row
\* it writes; the is_active flag is looked at before the password
LoginEffect(username, password) ==
    LET user == get_by_username(username) IN
    IF user = <<>>
    THEN LoginFailure("Invalid username or password", <<>>,
                      [username |-> username, reason |-> "user_not_found"])
    ELSE IF user[1].is_active = 0
    THEN LoginFailure("Account is disabled. Contact administrator.", <<user[1].id>>,
                      [reason |-> "account_disabled"])
    ELSE IF ~verify_password(password, user[1].password_hash)
    THEN LoginFailure("Invalid username or password", <<user[1].id>>,
                      [reason |-> "invalid_password"])
    ELSE LoginSuccess(user[1])

----------------------------------------------------------------------------
(* Actions *)

Init ==
    /\ db = <<>>
    /\ disk = <<>>
    /\ lic = <<>>
    /\ machine = HostA
    /\ today = 0
    /\ ticks = 0
    /\ audit = <<>>
    /\ result = NoCall
    /\ users = DefaultUsers
    /\ permissions = DefaultPermissions
    /\ session = <<>>
    /\ screen = "starting"
    /\ sidebar = {}
    /\ active_module = <<>>

\* LicenseManager.activate(license_key)
Activate(license_key) ==
    \E e \in {ActivateEffect(license_key)} :
    /\ Len(e.db) <= MaxRecords
    /\ db' = e.db
    /\ disk' = e.disk
    /\ lic' = e.lic
    /\ result' = [op |-> "activate", raised |-> e.raised,
                  message |-> e.message, value |-> e.value]
    /\ UNCHANGED <<machine, today, ticks, audit, appVars>>

\* LicenseManager.start_trial()
StartTrial(random_part) ==
    \E e \in {ActivateEffect(generate_license_key(TRIAL, random_part))} :
    /\ Len(e.db) <= MaxRecords
    /\ db' = e.db
    /\ disk' = e.disk
    /\ lic' = e.lic
    /\ result' = [op |-> "start_trial", raised |-> e.raised,
                  message |-> e.message, value |-> e.value]
    /\ UNCHANGED <<machine, today, ticks, audit, appVars>>

\* LicenseManager.revoke_license()
RevokeLicense ==
    \E e \in {RevokeEffect} :
    /\ db' = e.db
    /\ disk' = e.disk
    /\ lic' = e.lic
    /\ result' = [op |-> "revoke_license", raised |-> e.raised,
                  message |-> "", value |-> <<>>]
    /\ UNCHANGED <<machine, today, ticks, audit, appVars>>

\* LicenseManager.check_remote_revocation(revocation_url)
CheckRemoteRevocation(revocation_url, response) ==
    \E e \in {CheckRevocationEffect(revocation_url, response)} :
    /\ db' = e.db
    /\ disk' = e.disk
    /\ lic' = e.lic
    /\ result' = [op |-> "check_remote_revocation", raised |-> e.raised,
                  message |-> e.message, value |-> e.value]
    /\ UNCHANGED <<machine, today, ticks, audit, appVars>>

\* AuditLog.log(...) as login calls it for a username that has no row: BaseModel.create
\* inserts the audit row and commits the shared connection
AuditLogLog ==
    /\ Len(audit) < MaxAudit
    /\ audit' = Append(audit, LoginFailedRow(<<>>, [username |-> MeenaName,
                                                    reason |-> "user_not_found"]))
    /\ disk' = db
    /\ result' = NoCall
    /\ UNCHANGED <<db, lic, machine, today, ticks, appVars>>

\* the process ends (exit or crash) and the application is started again on a host;
\* uncommitted changes are lost and LicenseManager.__new__ loads the license afresh
Restart(components) ==
    /\ db' = disk
    /\ lic' = _load_license(disk, <<>>)
    /\ machine' = components
    /\ result' = NoCall
    /\ UNCHANGED <<disk, today, ticks, audit, appVars>>

\* the calendar advances
AdvanceDays == {30, 37, 38}

Tick(days) ==
    /\ ticks < MaxTicks
    /\ ticks' = ticks + 1
    /\ today' = today + days
    /\ result' = NoCall
    /\ UNCHANGED <<db, disk, lic, machine, audit, appVars>>

\* core.auth.login(username, password)
Login(username, password) ==
    \E e \in {LoginEffect(username, password)} :
    /\ Len(audit) < MaxLog
    /\ session' = e.session
    /\ audit' = Append(audit, e.log)
    /\ disk' = db
    /\ result' = [op |-> "login", raised |-> e.raised,
                  message |-> e.message, value |-> e.value]
    /\ UNCHANGED <<db, lic, machine, today, ticks, users, permissions,
                   screen, sidebar, active_module>>

\* core.auth.logout()
Logout ==
    /\ is_authenticated => Len(audit) < MaxLog
    /\ session' = Session_clear
    /\ IF is_authenticated
       THEN /\ audit' = Append(audit, AuditRow(<<session[1].user.id>>, "LOGOUT", "auth",
                                                <<>>, <<>>))
            /\ disk' = db
       ELSE UNCHANGED <<audit, disk>>
    /\ result' = [op |-> "logout", raised |-> "", message |-> "", value |-> <<>>]
    /\ UNCHANGED <<db, lic, machine, today, ticks, users, permissions,
                   screen, sidebar, active_module>>

\* core.auth.create_user(username, password, full_name, role_id); salt is what gensalt() draws
CreateUser(username, password, role_id, salt) ==
    /\ IF get_by_username(username) # <<>>
       THEN /\ result' = [op |-> "create_user", raised |-> "AuthenticationError",
                          message |-> "Username already exists", value |-> <<>>]
            /\ UNCHANGED <<users, audit, disk>>
       ELSE IF Len(password) < 6
       THEN /\ result' = [op |-> "create_user", raised |-> "AuthenticationError",
                          message |-> "Password must be at least 6 characters",
                          value |-> <<>>]
            /\ UNCHANGED <<users, audit, disk>>
       ELSE /\ Len(users) < MaxUsers
            /\ Len(audit) < MaxLog
            /\ users' = Append(users,
                               [id |-> Len(users) + 1, username |-> username,
                                password_hash |-> hash_password(password, salt),
                                role_id |-> role_id, is_active |-> 1])
            /\ audit' = Append(audit,
                               AuditRow(<<>>, "USER_CREATED", "users", <<Len(users) + 1>>,
                                        << [username |-> username, role_id |-> role_id] >>))
            /\ disk' = db
            /\ result' = [op |-> "create_user", raised |-> "", message |-> "",
                          value |-> <<Len(users) + 1>>]
    /\ UNCHANGED <<db, lic, machine, today, ticks, permissions, session,
                   screen, sidebar, active_module>>

\* True / False as SQLite stores them
BoolToInt(b) == IF b THEN 1 ELSE 0

\* core.auth.change_password(user_id, old_password, new_password)
ChangePassword(user_id, old_password, new_password, salt) ==
    /\ LET user == get_by_id(user_id) IN
       IF user = <<>>
       THEN /\ result' = [op |-> "change_password", raised |-> "AuthenticationError",
                          message |-> "User not found", value |-> <<>>]
            /\ UNCHANGED <<users, audit, disk>>
       ELSE IF ~verify_password(old_password, user[1].password_hash)
       THEN /\ result' = [op |-> "change_password", raised |-> "AuthenticationError",
                          message |-> "Current password is incorrect", value |-> <<>>]
            /\ UNCHANGED <<users, audit, disk>>
       ELSE IF Len(new_password) < 6
       THEN /\ result' = [op |-> "change_password", raised |-> "AuthenticationError",
                          message |-> "New password must be at least 6 characters",
                          value |-> <<>>]
            /\ UNCHANGED <<users, audit, disk>>
       ELSE /\ Len(audit) < MaxLog
            /\ users' = UserUpdate(user_id,
                                    [password_hash |-> hash_password(new_password, salt)])
            /\ audit' = Append(audit, AuditRow(<<user_id>>, "PASSWORD_CHANGED", "auth",
                                                <<>>, <<>>))
            /\ disk' = db
            /\ result' = [op |-> "change_password", raised |-> "", message |-> "",
                          value |-> <<TRUE>>]
    /\ UNCHANGED <<db, lic, machine, today, ticks, permissions, session,
                   screen, sidebar, active_module>>

\* variant of ResetPassword without the length check
ResetPassword_NoLengthCheck(user_id, new_password, reset_by, salt) ==
    /\ Len(audit) < MaxLog
    /\ users' = UserUpdate(user_id, [password_hash |-> hash_password(new_password, salt)])
    /\ audit' = Append(audit, AuditRow(reset_by, "PASSWORD_RESET", "users",
                                        <<user_id>>, <<>>))
    /\ disk' = db
    /\ result' = [op |-> "reset_password", raised |-> "", message |-> "",
                  value |-> <<TRUE>>]
    /\ UNCHANGED <<db, lic, machine, today, ticks, permissions, session,
                   screen, sidebar, active_module>>

\* core.auth.reset_password(user_id, new_password, reset_by)
ResetPassword(user_id, new_password, reset_by, salt) ==
    /\ IF Len(new_password) < 6
       THEN /\ result' = [op |-> "reset_password", raised |-> "AuthenticationError",
                          message |-> "Password must be at least 6 characters",
                          value |-> <<>>]
            /\ UNCHANGED <<users, audit, disk>>
       ELSE /\ Len(audit) < MaxLog
            /\ users' = UserUpdate(user_id,
                                    [password_hash |-> hash_password(new_password, salt)])
            /\ audit' = Append(audit, AuditRow(reset_by, "PASSWORD_RESET", "users",
                                                <<user_id>>, <<>>))
            /\ disk' = db
            /\ result' = [op |-> "reset_password", raised |-> "", message |-> "",
                          value |-> <<TRUE>>]
    /\ UNCHANGED <<db, lic, machine, today, ticks, permissions, session,
                   screen, sidebar, active_module>>

\* core.auth.toggle_user_status(user_id, toggled_by)
ToggleUserStatus(user_id, toggled_by) ==
    /\ LET user == get_by_id(user_id) IN
       IF user = <<>>
       THEN /\ result' = [op |-> "toggle_user_status", raised |-> "AuthenticationError",
                          message |-> "User not found", value |-> <<>>]
            /\ UNCHANGED <<users, audit, disk>>
       ELSE LET new_status == ~(user[1].is_active # 0) IN
            /\ Len(audit) < MaxLog
            /\ users' = UserUpdate(user_id, [is_active |-> BoolToInt(new_status)])
            /\ audit' = Append(audit,
                               AuditRow(toggled_by,
                                        IF new_status THEN "USER_ENABLED" ELSE "USER_DISABLED",
                                        "users", <<user_id>>, <<>>))
            /\ disk' = db
            /\ result' = [op |-> "toggle_user_status", raised |-> "", message |-> "",
                          value |-> <<new_status>>]
    /\ UNCHANGED <<db, lic, machine, today, ticks, permissions, session,
                   screen, sidebar, active_module>>

\* variant of require_permission without the test for a session
require_permission_NoSessionCheck(module, action) ==
    IF ~check_permission(module, action)
    THEN [raised |-> "PermissionError", message |-> "Permission denied", ran |-> FALSE]
    ELSE [raised |-> "", message |-> "", ran |-> TRUE]

\* the wrapper require_permission(module, action) puts around a function: how a call
\* ends and whether the wrapped function ran
require_permission(module, action) ==
    IF ~is_authenticated
    THEN [raised |-> "AuthenticationError", message |-> "Authentication required",
          ran |-> FALSE]
    ELSE IF ~check_permission(module, action)
    THEN [raised |-> "PermissionError", message |-> "Permission denied", ran |-> FALSE]
    ELSE [raised |-> "", message |-> "", ran |-> TRUE]

\* a call of a function decorated with require_permission(module, action); the function
\* itself changes nothing here
CallGuarded(module, action) ==
    \E e \in {require_permission(module, action)} :
    /\ result' = [op |-> "require_permission", raised |-> e.raised,
                  message |-> e.message, value |-> <<e.ran>>]
    /\ UNCHANGED <<db, disk, lic, machine, today, ticks, audit, appVars>>

\* dicts passed to setup_role_permissions: module -> flags, absent flags defaulting to False
PermissionInputs ==
    { ("billing" :> [can_view |-> TRUE, can_edit |-> TRUE]),
      ("billing" :> [can_view |-> FALSE]),
      ("payroll" :> [can_view |-> TRUE, can_export |-> TRUE]),
      ("payroll" :> [can_create |-> FALSE]) }

\* core.permissions.setup_role_permissions(role_id, permissions): INSERT OR REPLACE per module
SetupRolePermissions(role_id, perms) ==
    /\ permissions' =
          {r \in permissions : ~(r.role_id = role_id /\ r.module \in DOMAIN perms)}
          \cup {PermissionRow(role_id, m,
                               [a \in ACTION_NAMES |-> BoolToInt(Get(perms[m], a, FALSE))]) :
                  m \in DOMAIN perms}
    /\ disk' = db
    /\ result' = [op |-> "setup_role_permissions", raised |-> "", message |-> "",
                  value |-> <<>>]
    /\ UNCHANGED <<db, lic, machine, today, ticks, audit, users, session,
                   screen, sidebar, active_module>>

\* Permission.delete(id) for the id of the given row
DeletePermission(row) ==
    /\ row \in permissions
    /\ permissions' = permissions \ {row}
    /\ disk' = db
    /\ result' = [op |-> "delete_permission", raised |-> "", message |-> "", value |-> <<TRUE>>]
    /\ UNCHANGED <<db, lic, machine, today, ticks, audit, users, session,
                   screen, sidebar, active_module>>

\* the process is started: main() opens the database and ERPApplication.__init__ runs up
\* to check_license, whose get_license_manager() creates the manager and loads the license
Launch(components) ==
    /\ db' = disk
    /\ lic' = _load_license(disk, <<>>)
    /\ machine' = components
    /\ session' = <<>>
    /\ screen' = "starting"
    /\ sidebar' = {}
    /\ active_module' = <<>>
    /\ result' = NoCall
    /\ UNCHANGED <<disk, today, ticks, audit, users, permissions>>

\* variant of check_license_screen that always shows the login window
check_license_screen_AlwaysLogin(valid) == "login"

\* the window check_license opens for the value of lm.is_valid
check_license_screen(valid) == IF valid THEN "login" ELSE "activation"

\* ERPApplication.check_license(): the revocation check when the license is valid, then
\* the login or the activation window
CheckLicense(response) ==
    /\ screen = "starting"
    /\ \E e \in {IF is_valid(lic, machine, today)
                  THEN CheckRevocationEffect(<<"url">>, response)
                  ELSE [db |-> db, disk |-> disk, lic |-> lic, raised |-> "",
                        value |-> <<>>, message |-> ""]} :
          /\ db' = e.db
          /\ disk' = e.disk
          /\ lic' = e.lic
          /\ screen' = check_license_screen(is_valid(e.lic, machine, today))
          /\ result' = [op |-> "check_license", raised |-> "",
                        message |-> e.message, value |-> e.value]
    /\ UNCHANGED <<machine, today, ticks, audit, users, permissions, session,
                   sidebar, active_module>>

\* texts typed into the key entry of the activation window
TypedTexts == {<<" ">> \o KeyBasic \o <<"\n">>, KeyShort, <<" ">>}

\* ActivationWindow.activate() with the given text in the key entry
ActivationActivate(text) ==
    /\ screen = "activation"
    /\ IF Strip(text) = <<>>
       THEN /\ result' = [op |-> "activation_window", raised |-> "",
                          message |-> "Please enter a license key", value |-> <<>>]
            /\ UNCHANGED <<db, disk, lic, screen>>
       ELSE \E e \in {ActivateEffect(Strip(text))} :
            /\ Len(e.db) <= MaxRecords
            /\ db' = e.db
            /\ disk' = e.disk
            /\ lic' = e.lic
            /\ screen' = IF e.raised = "" THEN "login" ELSE "activation"
            /\ result' = [op |-> "activate", raised |-> e.raised,
                          message |-> e.message, value |-> e.value]
    /\ UNCHANGED <<machine, today, ticks, audit, users, permissions, session,
                   sidebar, active_module>>

\* ActivationWindow.start_trial(), confirmed
ActivationStartTrial(random_part) ==
    /\ screen = "activation"
    /\ \E e \in {ActivateEffect(generate_license_key(TRIAL, random_part))} :
          /\ Len(e.db) <= MaxRecords
          /\ db' = e.db
          /\ disk' = e.disk
          /\ lic' = e.lic
          /\ screen' = IF e.raised = "" THEN "login" ELSE "activation"
          /\ result' = [op |-> "start_trial", raised |-> e.raised,
                        message |-> e.message, value |-> e.value]
    /\ UNCHANGED <<machine, today, ticks, audit, users, permissions, session,
                   sidebar, active_module>>

\* LoginWindow.perform_login() and, when login succeeds, ERPApplication.on_login_success:
\* the sidebar is rebuilt and the dashboard is loaded
PerformLogin(username_text, password_text) ==
    /\ screen = "login"
    /\ IF Strip(username_text) = <<>> \/ Strip(password_text) = <<>>
       THEN /\ result' = [op |-> "login_window", raised |-> "",
                          message |-> "Please enter both username and password",
                          value |-> <<>>]
            /\ UNCHANGED <<disk, audit, session, screen, sidebar, active_module>>
       ELSE \E e \in {LoginEffect(Strip(username_text), Strip(password_text))} :
            /\ Len(audit) < MaxLog
            /\ audit' = Append(audit, e.log)
            /\ disk' = db
            /\ session' = e.session
            /\ result' = [op |-> "login", raised |-> e.raised,
                          message |-> e.message, value |-> e.value]
            /\ IF e.raised = ""
               THEN /\ screen' = "main"
                    /\ sidebar' = get_accessible_modules(e.session)
                    /\ active_module' = <<"dashboard">>
               ELSE UNCHANGED <<screen, sidebar, active_module>>
    /\ UNCHANGED <<db, lic, machine, today, ticks, users, permissions>>

\* a sidebar button is pressed: ERPApplication.load_module(module_name)
LoadModule(module_name) ==
    /\ screen = "main"
    /\ module_name \in sidebar
    /\ active_module' = <<module_name>>
    /\ result' = [op |-> "load_module", raised |-> "", message |-> "", value |-> <<>>]
    /\ UNCHANGED <<db, disk, lic, machine, today, ticks, audit, users, permissions,
                   session, screen, sidebar>>

\* ERPApplication.logout(), confirmed: core.auth.logout() and back to the login window
AppLogout ==
    /\ screen = "main"
    /\ is_authenticated => Len(audit) < MaxLog
    /\ session' = Session_clear
    /\ IF is_authenticated
       THEN /\ audit' = Append(audit, AuditRow(<<session[1].user.id>>, "LOGOUT", "auth",
                                                <<>>, <<>>))
            /\ disk' = db
       ELSE UNCHANGED <<audit, disk>>
    /\ screen' = "login"
    /\ result' = [op |-> "logout", raised |-> "", message |-> "", value |-> <<>>]
    /\ UNCHANGED <<db, lic, machine, today, ticks, users, permissions,
                   sidebar, active_module>>

Next ==
    \/ \E k \in TypedKeys : Activate(k)
    \/ \E r \in RandomParts : StartTrial(r)
    \/ RevokeLicense
    \/ \E u \in {<<>>, <<"url">>}, resp \in Responses : CheckRemoteRevocation(u, resp)
    \/ AuditLogLog
    \/ \E m \in Machines : Restart(m)
    \/ \E d \in AdvanceDays : Tick(d)

Spec == Init /\ [][Next]_vars

\* activation with the keys of EnteredKeys
NextKeys ==
    \/ \E k \in EnteredKeys : Activate(k)
    \/ \E m \in Machines : Restart(m)
    \/ \E d \in AdvanceDays : Tick(d)

SpecKeys == Init /\ [][NextKeys]_vars

\* modules whose permission rows are set up and deleted, and modules asked about
SetupModules == {"billing", "payroll"}

CheckedModules == {"dashboard", "billing", "payroll"}

\* sessions, users and the permissions table
NextPerm ==
    \/ \E u \in {AdminName, MeenaName}, pw \in {Admin123, Secret1} : Login(u, pw)
    \/ Logout
    \/ \E pw \in {Secret1, Short}, r \in {1, 2} : CreateUser(MeenaName, pw, r, "salt1")
    \/ \E r \in {1, 2}, perms \in PermissionInputs : SetupRolePermissions(r, perms)
    \/ \E row \in {r \in permissions : r.module \in SetupModules} : DeletePermission(row)

SpecPerm == Init /\ [][NextPerm]_vars

\* usernames and passwords given to login, and passwords of fewer than 6 characters
LoginNames == {AdminName, MeenaName}

LoginPasswords == {Admin123, Secret1}

ShortPasswords == {Short, Five}

\* the authentication layer: accounts, passwords, the session and guarded calls
NextAuth ==
    \/ \E u \in LoginNames, pw \in LoginPasswords : Login(u, pw)
    \/ Logout
    \/ \E pw \in {Secret1} \cup ShortPasswords : CreateUser(MeenaName, pw, 2, "salt1")
    \/ \E id \in {1, 2}, old \in LoginPasswords, new \in {Secret1} \cup ShortPasswords :
          ChangePassword(id, old, new, "salt2")
    \/ \E id \in {1, 2}, new \in {Admin123} \cup ShortPasswords :
          ResetPassword(id, new, <<1>>, "salt3")
    \/ \E id \in {1, 2} : ToggleUserStatus(id, <<>>)
    \/ \E m \in {"billing"}, a \in {"can_view", "can_delete"} : CallGuarded(m, a)

SpecAuth == Init /\ [][NextAuth]_vars

\* [c for c in components if c.strip()]
RECURSIVE FilterBlank(_)
FilterBlank(components) ==
    IF components = <<>> THEN <<>>
    ELSE IF Strip(Head(components)) = <<>> THEN FilterBlank(Tail(components))
    ELSE <<Head(components)>> \o FilterBlank(Tail(components))

\* machine_fingerprint.generate_fingerprint() on a host with the given six components:
\* node name, machine type, CPU id, MAC address, disk serial, motherboard serial
generate_fingerprint(components) == Sha256Hex32(JoinPipe(FilterBlank(components)))

\* texts a host component can be: empty, blank, plain, the delimiter, with the delimiter
ComponentTexts == {<<>>, <<" ">>, <<"a">>, <<"|">>, <<"a","|","a">>}

\* component lists MachineFingerprint.generate reads; uuid.getnode() is a number
HostTuples ==
    { <<n, m, p, g>> : n \in ComponentTexts, m \in ComponentTexts, p \in ComponentTexts,
                       g \in {<<"1","7">>, <<"2","9">>} }

\* component lists generate_fingerprint reads; the MAC address is never empty
HostTuples6 ==
    { <<n, m, c, <<"0","0",":","1","7">>, d, b>> :
         n \in {<<"a">>, <<" ">>, <<"a","|","a">>}, m \in {<<"a">>, <<"a","|","a">>},
         c \in {<<>>, <<"a">>}, d \in {<<>>, <<"a">>, <<"b">>},
         b \in {<<>>, <<"a">>, <<"b">>} }

\* the application starts on some host
InitFingerprint ==
    /\ db = <<>>
    /\ disk = <<>>
    /\ lic = <<>>
    /\ machine \in HostTuples \cup HostTuples6
    /\ today = 0
    /\ ticks = 0
    /\ audit = <<>>
    /\ result = NoCall
    /\ users = DefaultUsers
    /\ permissions = DefaultPermissions
    /\ session = <<>>
    /\ screen = "starting"
    /\ sidebar = {}
    /\ active_module = <<>>

\* MachineFingerprint.generate()
MachineFingerprintGenerate ==
    /\ Len(machine) = 4
    /\ result' = [op |-> "generate", raised |-> "", message |-> "",
                  value |-> <<Generate(machine)>>]
    /\ UNCHANGED <<db, disk, lic, machine, today, ticks, audit, appVars>>

\* machine_fingerprint.generate_fingerprint()
GenerateFingerprint ==
    /\ Len(machine) = 6
    /\ result' = [op |-> "generate_fingerprint", raised |-> "", message |-> "",
                  value |-> <<generate_fingerprint(machine)>>]
    /\ UNCHANGED <<db, disk, lic, machine, today, ticks, audit, appVars>>

\* the two fingerprint functions on every host
NextFingerprint ==
    \/ MachineFingerprintGenerate
    \/ GenerateFingerprint

SpecFingerprint == InitFingerprint /\ [][NextFingerprint]_vars

\* the application shell: start, activation window, login window, main window
NextApp ==
    \/ \E m \in Machines : Launch(m)
    \/ \E resp \in Responses : CheckLicense(resp)
    \/ \E t \in TypedTexts : ActivationActivate(t)
    \/ \E r \in RandomParts : ActivationStartTrial(r)
    \/ \E u \in {AdminName, <<" ">>}, pw \in {Admin123 \o <<" ">>, Secret1} : PerformLogin(u, pw)
    \/ \E m \in Modules : LoadModule(m)
    \/ AppLogout
    \/ \E d \in AdvanceDays : Tick(d)

SpecApp == Init /\ [][NextApp]_vars

----------------------------------------------------------------------------
(* Properties *)

\* the manager's answers in the current state
IsValid == is_valid(lic, machine, today)

IsModuleEnabled(module) == is_module_enabled(lic, machine, today, module)

ActiveCount(rows) == Cardinality({i \in DOMAIN rows : rows[i].is_active = 1})

ListElems(list) == {list[i] : i \in DOMAIN list}

\* C1: whatever calls were made, the license table (as the connection sees it and
\* as committed) never has more than one row with is_active = 1.
C1_AtMostOneActive == ActiveCount(db) <= 1 /\ ActiveCount(disk) <= 1

C1_Witness ==
    /\ Len(db) = 2 /\ Len(disk) = 2
    /\ ActiveCount(db) = 1 /\ db[2].is_active = 1 /\ db[1].is_active = 0
    /\ result.op = "activate"

\* C2: after an activate call with a valid-format key, all rows being of this
\* machine, exactly one row of the license table has is_active = 1.
C2_ExactlyOneActiveAfterActivate ==
    (/\ result.op = "activate"
     /\ result.raised # "LicenseError"
     /\ \A i \in DOMAIN db : db[i].machine_fingerprint = Generate(machine))
    => ActiveCount(db) = 1

\* C3: the committed license table changes only by a whole activation (one row
\* more, exactly one active row afterwards) or by a revocation; a failed
\* activate followed by another operation's commit leaves it as it was.
C3_ActivateAllOrNothing ==
    [][disk' # disk =>
          \/ Len(disk') = Len(disk) + 1 /\ ActiveCount(disk') = 1
          \/ result'.op \in {"revoke_license", "check_remote_revocation"}]_vars

\* C4: when the feed is fetched (status 200, well-formed JSON) and lists the active
\* license's key or fingerprint, check_remote_revocation returns True, the row is
\* committed with is_active = 0 and is_revoked = 1, and is_valid is false.
C4_RevocationTakesEffect ==
    [][\A resp \in Responses :
          (/\ lic # <<>>
           /\ resp.status = 200 /\ resp.json_ok
           /\ \/ lic[1].license_key \in resp.revoked_keys
              \/ lic[1].machine_fingerprint \in resp.revoked_machines
           /\ CheckRemoteRevocation(<<"url">>, resp))
          => /\ result'.value = <<TRUE>>
             /\ \A i \in DOMAIN disk' :
                   disk'[i].id = lic[1].id =>
                       disk'[i].is_active = 0 /\ Get(disk'[i], "is_revoked", 0) = 1
             /\ ~is_valid(lic', machine', today')]_vars

\* C5: an active, non-revoked cached license of this machine is valid exactly
\* when today <= expiry date + grace period days.
C5_ValidThroughGrace ==
    (/\ lic # <<>>
     /\ lic[1].is_active = 1
     /\ Get(lic[1], "is_revoked", 0) = 0
     /\ lic[1].machine_fingerprint = Generate(machine))
    => (IsValid <=> today <= StrpDate(lic[1].expiry_date) + lic[1].grace_period_days)

C5_Witness ==
    /\ lic # <<>>
    /\ lic[1].machine_fingerprint = Generate(machine)
    /\ today > StrpDate(lic[1].expiry_date)
    /\ today = StrpDate(lic[1].expiry_date) + lic[1].grace_period_days
    /\ IsValid

\* C6: a license bound to a fingerprint other than this machine's is not valid
\* here and enables no module.
C6_WrongMachineNeverValid ==
    (lic # <<>> /\ lic[1].machine_fingerprint # Generate(machine))
    => (~IsValid /\ \A m \in Modules : ~IsModuleEnabled(m))

C6_Witness ==
    /\ lic # <<>>
    /\ lic[1].machine_fingerprint # Generate(machine)
    /\ lic[1].is_active = 1
    /\ today <= StrpDate(lic[1].expiry_date)

\* C7: no module is enabled while the license is not valid; while it is valid,
\* the enabled modules are exactly those of the license's enabled_modules column.
C7_ModulesFollowValidity ==
    \A m \in Modules :
        IsModuleEnabled(m) <=>
            (IsValid /\ m \in ListElems(JsonLoads(lic[1].enabled_modules)))

C7_Witness ==
    /\ lic # <<>>
    /\ lic[1].machine_fingerprint = Generate(machine)
    /\ today > StrpDate(lic[1].expiry_date) + lic[1].grace_period_days
    /\ \A m \in Modules : ~IsModuleEnabled(m)

\* C8: an activate call that got as far as inserting the row returns a status
\* snapshot of the new row (activated, valid, its plan, max users and modules)
\* and does not raise.
C8_ActivateReturnsStatus ==
    (result.op = "activate" /\ result.raised \notin {"LicenseError", "IntegrityError"})
    => /\ result.raised = ""
       /\ result.value # <<>>
       /\ result.value[1].activated
       /\ result.value[1].valid
       /\ result.value[1].plan = db[Len(db)].plan_type
       /\ result.value[1].max_users = db[Len(db)].max_users
       /\ result.value[1].modules = JsonLoads(db[Len(db)].enabled_modules)

\* C9: activate with a key whose row is bound to another machine's fingerprint
\* raises LicenseError and leaves the table, the file and the cached license as
\* they were.
C9_ElsewhereRejectedUnchanged ==
    [][\A k \in TypedKeys :
          (/\ \E i \in DOMAIN db :
                 /\ db[i].license_key = k
                 /\ db[i].machine_fingerprint # Generate(machine)
           /\ result'.op = "activate"
           /\ Activate(k))
          => /\ result'.raised = "LicenseError"
             /\ result'.message = "License already activated on another machine"
             /\ db' = db /\ disk' = disk /\ lic' = lic]_vars

C9_Witness ==
    /\ result.op = "activate"
    /\ result.message = "License already activated on another machine"
    /\ db # <<>>

\* C10: keys are compared in uppercase: a case variant of a key bound to another
\* machine is rejected, and no two rows have keys equal after uppercasing.
C10_KeysCanonicalUppercase ==
    [][/\ \A k \in TypedKeys :
             (/\ \E i \in DOMAIN db :
                    /\ Upper(db[i].license_key) = Upper(k)
                    /\ db[i].machine_fingerprint # Generate(machine)
              /\ result'.op = "activate"
              /\ Activate(k))
             => result'.raised = "LicenseError"
       /\ \A i, j \in DOMAIN db' :
             i # j => Upper(db'[i].license_key) # Upper(db'[j].license_key)]_vars

\* C11: activate with a key that already has a row bound to this machine is
\* accepted: it raises neither LicenseError nor a database error, and afterwards
\* the only active row of the table is a row of that key.
C11_ReactivateSameMachineAccepted ==
    [][\A k \in TypedKeys :
          (/\ \E i \in DOMAIN db :
                 /\ db[i].license_key = k
                 /\ db[i].machine_fingerprint = Generate(machine)
           /\ result'.op = "activate"
           /\ Activate(k))
          => /\ result'.raised \notin {"LicenseError", "IntegrityError"}
             /\ ActiveCount(db') = 1
             /\ \A i \in DOMAIN db' : db'[i].is_active = 1 => db'[i].license_key = k]_vars

\* C12: check_remote_revocation fails open: on a network error or timeout, a
\* non-200 status or a malformed body, and when no license is cached or no URL is
\* given, it returns False without raising and leaves the table, the file and
\* the cached license exactly as they were.
C12_RevocationCheckFailsOpen ==
    [][\A u \in {<<>>, <<"url">>}, resp \in Responses :
          (/\ lic = <<>> \/ u = <<>> \/ resp.status # 200 \/ ~resp.json_ok
           /\ result'.op = "check_remote_revocation"
           /\ CheckRemoteRevocation(u, resp))
          => /\ result'.raised = ""
             /\ result'.value = <<FALSE>>
             /\ db' = db /\ disk' = disk /\ lic' = lic]_vars

C12_Witness ==
    /\ result.op = "check_remote_revocation"
    /\ result.message \in {"Revocation check failed: ConnectionError",
                           "Revocation check failed: JSONDecodeError"}
    /\ result.value = <<FALSE>>
    /\ lic # <<>> /\ IsValid

\* C13: a deactivated row stays deactivated: no activate, start_trial,
\* revoke_license or check_remote_revocation call sets is_active of an existing
\* row back to 1 (in the table as the connection sees it), no step at all does
\* so in the committed file, and a call changes the cached license only to a row
\* it has newly inserted.
C13_DeactivatedIsTerminal ==
    [][/\ \A i \in DOMAIN disk :
             disk[i].is_active = 0 => (i \in DOMAIN disk' /\ disk'[i].is_active = 0)
       /\ result'.op # "none" =>
             /\ \A i \in DOMAIN db :
                   db[i].is_active = 0 => (i \in DOMAIN db' /\ db'[i].is_active = 0)
             /\ (lic' # lic /\ lic' # <<>>) =>
                   /\ \A i \in DOMAIN db : db[i].id # lic'[1].id
                   /\ \E i \in DOMAIN db' : db'[i].id = lic'[1].id]_vars

C13_Witness ==
    /\ Len(db) = 2 /\ Len(disk) = 2
    /\ db[1].is_active = 0 /\ disk[1].is_active = 0
    /\ result.op \in {"activate", "start_trial"}
    /\ result.raised = "IntegrityError"
    /\ lic # <<>> /\ lic[1].id = 2

\* the columns of a license row that are fixed when it is inserted
KeyFields(row) ==
    [id |-> row.id,
     license_key |-> row.license_key,
     machine_fingerprint |-> row.machine_fingerprint,
     plan_type |-> row.plan_type,
     max_users |-> row.max_users,
     enabled_modules |-> row.enabled_modules,
     activation_date |-> row.activation_date,
     expiry_date |-> row.expiry_date]

\* C14: the license table is append-only: no step removes a row, and every
\* existing row keeps its license_key, machine_fingerprint, plan_type, max_users,
\* enabled_modules, activation_date and expiry_date (only is_active / is_revoked
\* may change), in the table as the connection sees it and in the committed file.
C14_HistoryAppendOnly ==
    [][/\ Len(db') >= Len(db)
       /\ \A i \in DOMAIN db : KeyFields(db'[i]) = KeyFields(db[i])
       /\ Len(disk') >= Len(disk)
       /\ \A i \in DOMAIN disk : KeyFields(disk'[i]) = KeyFields(disk[i])]_vars

C14_Witness ==
    /\ Len(db) = 2
    /\ db[1].is_active = 0 /\ db[2].is_active = 0
    /\ db[1].license_key # db[2].license_key
    /\ result.op \in {"activate", "start_trial"}

IsAlnum(c) ==
    \/ c \in Digits
    \/ c = SharpS
    \/ \E i \in 1..26 : UpperLetters[i] = c \/ LowerLetters[i] = c

HasKeyShape(key) ==
    /\ Len(key) = 19
    /\ \A i \in 1..19 : IF i \in {5, 10, 15} THEN key[i] = "-" ELSE IsAlnum(key[i])

\* C16: activate with a key that is not four hyphen-separated groups of four
\* alphanumeric characters raises LicenseError and leaves the table, the file and
\* the cached license as they were.
C16_MalformedKeyRejected ==
    [][\A k \in EnteredKeys :
          (/\ ~HasKeyShape(k)
           /\ result'.op = "activate"
           /\ Activate(k))
          => /\ result'.raised = "LicenseError"
             /\ db' = db /\ disk' = disk /\ lic' = lic]_vars

\* C19: while the session is authenticated with role Admin, check_permission is
\* true for every module and action, whatever rows the permissions table holds.
C19_AdminAlwaysPermitted ==
    (is_authenticated /\ session[1].role_name = "Admin")
    => \A m \in CheckedModules, a \in ACTION_NAMES : check_permission(m, a)

C19_Witness ==
    /\ is_authenticated
    /\ session[1].role_name = "Admin"
    /\ ~\E r \in permissions : r.role_id = session[1].role_id /\ r.module = "billing"
    /\ \E r \in permissions :
          r.role_id = session[1].role_id /\ r.module = "payroll" /\ r.can_view = 0

\* C20: while the session is authenticated with a role other than Admin,
\* check_permission(module, action) is true exactly when the permissions table has
\* a row for (role, module) whose flag for that action is set; without a row it
\* is false.
C20_NonAdminFollowsTable ==
    (is_authenticated /\ session[1].role_name # "Admin")
    => \A m \in CheckedModules, a \in ACTION_NAMES :
          check_permission(m, a) <=>
              \E r \in permissions :
                  r.role_id = session[1].role_id /\ r.module = m /\ r[a] = 1

C20_Witness ==
    /\ is_authenticated
    /\ session[1].role_name = "Manager"
    /\ \E r \in permissions :
          /\ r.role_id = session[1].role_id /\ r.module = "billing"
          /\ r.can_view = 1 /\ r.can_delete = 0
    /\ check_permission("billing", "can_view")
    /\ ~check_permission("billing", "can_delete")
    /\ ~\E r \in permissions : r.role_id = session[1].role_id /\ r.module = "payroll"
    /\ ~check_permission("payroll", "can_view")

\* C17: the application loads a module only when is_module_enabled(module) is
\* true for the current license, whatever the user's role.
C17_LoadOnlyEnabledModules ==
    [][(active_module' # active_module /\ active_module' # <<>>)
          => is_module_enabled(lic', machine', today', active_module'[1])]_vars

\* C18: the starting application opens the login window when the license is valid
\* after the revocation check and the activation window otherwise; from the
\* activation window the login window is reached only by an activate or
\* start_trial call that returned without raising.
C18_LoginOnlyWhenLicensed ==
    [][/\ (screen = "starting" /\ screen' # "starting") =>
             screen' = (IF is_valid(lic', machine', today') THEN "login" ELSE "activation")
       /\ (screen = "activation" /\ screen' # "activation") =>
             \/ screen' = "starting"
             \/ /\ screen' = "login"
                /\ result'.op \in {"activate", "start_trial"}
                /\ result'.raised = ""
       /\ (screen = "main" /\ screen' = "login") => result'.op = "logout"]_vars

C18_Witness ==
    /\ screen = "login"
    /\ result.op = "check_license"
    /\ result.value = <<FALSE>>
    /\ IsValid
    /\ Len(disk) = 2

----------------------------------------------------------------------------
(* Authentication, the audit trail and the session *)

\* a username no row of the users table carries
NoSuchName == <<"n","o","b","o","d","y">>

\* what the caller of login sees of a call
LoginOutcome(e) == [raised |-> e.raised, message |-> e.message, value |-> e.value]

LastAudit == audit[Len(audit)]

\* C21 (as stated): for every existing username and every wrong password, the login
\* call ends as a login call for a username that does not exist ends:
\* AuthenticationError 'Invalid username or password'.
C21_NoEnumeration_AnyAccount ==
    [][\A u \in LoginNames, pw \in LoginPasswords :
          (/\ get_by_username(u) # <<>>
           /\ ~verify_password(pw, get_by_username(u)[1].password_hash)
           /\ result'.op = "login"
           /\ Login(u, pw))
          => /\ LoginOutcome(result') = LoginOutcome(LoginEffect(NoSuchName, pw))
             /\ result'.message = "Invalid username or password"]_vars

\* C21 (amended): for every existing username whose account is enabled and every wrong
\* password, the login call ends as a login call for a username that does not exist
\* ends: AuthenticationError 'Invalid username or password'.
C21_NoEnumeration_EnabledAccount ==
    [][\A u \in LoginNames, pw \in LoginPasswords :
          (/\ get_by_username(u) # <<>>
           /\ get_by_username(u)[1].is_active # 0
           /\ ~verify_password(pw, get_by_username(u)[1].password_hash)
           /\ result'.op = "login"
           /\ Login(u, pw))
          => /\ LoginOutcome(result') = LoginOutcome(LoginEffect(NoSuchName, pw))
             /\ result'.raised = "AuthenticationError"
             /\ result'.message = "Invalid username or password"]_vars

C21_Witness ==
    /\ result.op = "login"
    /\ result.message = "Invalid username or password"
    /\ audit # <<>>
    /\ LastAudit.user_id = <<2>>
    /\ LastAudit.new_values = << JsonDumps([reason |-> "invalid_password"]) >>
    /\ get_by_username(MeenaName) # <<>>
    /\ get_by_username(MeenaName)[1].id = 2
    /\ get_by_username(NoSuchName) = <<>>

\* the reason a failing login call is to log, from the users table before the call
ExpectedReason(username) ==
    IF get_by_username(username) = <<>> THEN "user_not_found"
    ELSE IF get_by_username(username)[1].is_active = 0 THEN "account_disabled"
    ELSE "invalid_password"

IsPrefix(s, t) == Len(s) <= Len(t) /\ \A i \in DOMAIN s : t[i] = s[i]

\* C22: every call of login appends exactly one row to the audit trail, LOGIN_SUCCESS
\* for the user when it succeeds and LOGIN_FAILED with the reason (user_not_found,
\* account_disabled, invalid_password) when it fails; no operation of the
\* authentication layer changes or removes a row that is already there.
C22_AuditTrailOnlyGrows ==
    [][/\ IsPrefix(audit, audit')
       /\ \A u \in LoginNames, pw \in LoginPasswords :
             (result'.op = "login" /\ Login(u, pw))
             => /\ Len(audit') = Len(audit) + 1
                /\ LET row == audit'[Len(audit')] IN
                   IF result'.raised = ""
                   THEN /\ row.action = "LOGIN_SUCCESS"
                        /\ row.user_id = << get_by_username(u)[1].id >>
                   ELSE /\ row.action = "LOGIN_FAILED"
                        /\ row.new_values # <<>>
                        /\ JsonLoads(row.new_values[1]).reason = ExpectedReason(u)]_vars

C22_Witness ==
    /\ Len(audit) = 3
    /\ audit[1].action = "LOGIN_SUCCESS"
    /\ audit[1].user_id = <<1>>
    /\ audit[2].action = "USER_DISABLED"
    /\ audit[3].action = "LOGIN_FAILED"
    /\ audit[3].new_values = << JsonDumps([reason |-> "account_disabled"]) >>
    /\ result.op = "login"

\* C23: the session holds at most one identity. A login call that succeeds sets it to
\* the id, role id and role name of the user who logged in, replacing whatever
\* session there was; a login call for a disabled account raises and gives a session
\* to nobody, even with the right password.
C23_SessionIsLatestLogin ==
    [][\A u \in LoginNames, pw \in LoginPasswords :
          (result'.op = "login" /\ Login(u, pw))
          => /\ result'.raised = "" =>
                   /\ Len(session') = 1
                   /\ session'[1].user.id = get_by_username(u)[1].id
                   /\ session'[1].user.username = u
                   /\ session'[1].role_id = get_by_username(u)[1].role_id
                   /\ session'[1].role_name = Roles[get_by_username(u)[1].role_id]
             /\ (get_by_username(u) # <<>> /\ get_by_username(u)[1].is_active = 0) =>
                   /\ result'.raised = "AuthenticationError"
                   /\ session' = session]_vars

C23_Witness ==
    /\ Len(audit) = 3
    /\ audit[2].action = "LOGIN_SUCCESS" /\ audit[2].user_id = <<1>>
    /\ audit[3].action = "LOGIN_SUCCESS" /\ audit[3].user_id = <<2>>
    /\ is_authenticated
    /\ session[1].user.id = 2
    /\ session[1].role_id = 2
    /\ session[1].role_name = "Manager"

\* C24: logout with a session appends one LOGOUT row carrying the id of the session's
\* user (so it is written before the session is cleared) and leaves the session
\* empty: not authenticated, no user, role id, role name or login time. logout
\* without a session writes no audit row and leaves the session empty.
C24_LogoutAuditsThenClears ==
    [][(result'.op = "logout" /\ Logout)
          => /\ session' = <<>>
             /\ ~is_authenticated'
             /\ IF is_authenticated
                THEN /\ Len(audit') = Len(audit) + 1
                     /\ IsPrefix(audit, audit')
                     /\ audit'[Len(audit')].action = "LOGOUT"
                     /\ audit'[Len(audit')].user_id = << session[1].user.id >>
                ELSE audit' = audit]_vars

C24_Witness ==
    /\ result.op = "logout"
    /\ session = <<>>
    /\ Len(audit) = 3
    /\ audit[2].action = "LOGIN_SUCCESS" /\ audit[2].user_id = <<2>>
    /\ audit[3].action = "LOGOUT" /\ audit[3].user_id = <<2>>

\* C25: create_user, change_password and reset_password, given a password of fewer
\* than 6 characters, raise AuthenticationError and leave the users table and the
\* audit trail as they were: no user created, no hash replaced, no row logged.
C25_ShortPasswordRejected ==
    [][\A pw \in ShortPasswords :
          (\/ (result'.op = "create_user" /\ CreateUser(MeenaName, pw, 2, "salt1"))
           \/ \E id \in {1, 2}, old \in LoginPasswords :
                 (result'.op = "change_password" /\ ChangePassword(id, old, pw, "salt2"))
           \/ \E id \in {1, 2} :
                 (result'.op = "reset_password" /\ ResetPassword(id, pw, <<1>>, "salt3")))
          => /\ Len(pw) < 6
             /\ result'.raised = "AuthenticationError"
             /\ users' = users
             /\ audit' = audit]_vars

C25_Witness ==
    /\ result.op = "change_password"
    /\ result.raised = "AuthenticationError"
    /\ result.message = "New password must be at least 6 characters"
    /\ Len(users) = 2
    /\ users[2].password_hash = hash_password(Secret1, "salt1")
    /\ Len(audit) = 1

\* C29: a login call that raises AuthenticationError (unknown user, disabled account,
\* wrong password) leaves the session as it was: a session that exists is neither
\* cleared nor replaced, and no session stays no session.
C29_FailedLoginKeepsSession ==
    [][\A u \in LoginNames, pw \in LoginPasswords :
          (result'.op = "login" /\ result'.raised = "AuthenticationError" /\ Login(u, pw))
          => session' = session]_vars

C29_Witness ==
    /\ result.op = "login"
    /\ result.raised = "AuthenticationError"
    /\ is_authenticated
    /\ session[1].user.id = 1
    /\ LastAudit.action = "LOGIN_FAILED"
    /\ LastAudit.new_values = << JsonDumps([reason |-> "invalid_password"]) >>
    /\ LastAudit.user_id = <<2>>

\* nothing is granted: check_permission is false for every module and action, no
\* module is accessible and a guarded call raises AuthenticationError without running
NothingGranted ==
    /\ \A i \in DOMAIN MODULES, a \in ACTION_NAMES :
          /\ ~check_permission(MODULES[i], a)
          /\ require_permission(MODULES[i], a).raised = "AuthenticationError"
          /\ ~require_permission(MODULES[i], a).ran
    /\ get_accessible_modules(session) = {}

\* C30: without an authenticated session nothing is granted. Before the first
\* successful login and after every logout, whatever the role of the session that
\* ended, check_permission is false for every module and action and
\* get_accessible_modules is empty; a call guarded by require_permission then raises
\* AuthenticationError and the wrapped function does not run.
C30_NothingWithoutSession ==
    [][/\ ~is_authenticated => NothingGranted
       /\ ~is_authenticated' => NothingGranted'
       /\ (result'.op = "logout" /\ Logout) => NothingGranted'
       /\ \A m \in {"billing"}, a \in {"can_view", "can_delete"} :
             (~is_authenticated /\ result'.op = "require_permission" /\ CallGuarded(m, a))
             => /\ result'.raised = "AuthenticationError"
                /\ result'.value = <<FALSE>>]_vars

C30_Witness ==
    /\ result.op = "require_permission"
    /\ result.raised = "AuthenticationError"
    /\ result.value = <<FALSE>>
    /\ ~is_authenticated
    /\ Len(audit) = 2
    /\ audit[1].action = "LOGIN_SUCCESS" /\ audit[1].user_id = <<1>>
    /\ audit[2].action = "LOGOUT" /\ audit[2].user_id = <<1>>
    /\ NothingGranted

----------------------------------------------------------------------------
(* The trial, the fingerprint and the cached license *)

\* rows of the license table that record a trial on the host
TrialRows(rows, components) ==
    {i \in DOMAIN rows :
        rows[i].plan_type = TRIAL /\ rows[i].machine_fingerprint = Generate(components)}

\* C26: the trial works once per machine. Once the license table holds a trial row
\* of this machine, a further start_trial call adds no trial row and leaves the
\* cached license without a new 30-day trial.
C26_TrialOnlyOnce ==
    [][\A r \in RandomParts :
          (/\ TrialRows(disk, machine) # {}
           /\ result'.op = "start_trial"
           /\ StartTrial(r))
          => /\ TrialRows(disk', machine') = TrialRows(disk, machine)
             /\ ~(/\ lic' # <<>>
                  /\ lic'[1].plan_type = TRIAL
                  /\ lic'[1].activation_date = IsoFormat(today)
                  /\ (lic = <<>> \/ lic'[1].id # lic[1].id))]_vars

\* C27: the fingerprint is injective on the host's components up to the hash: no
\* other list of components, be they empty, blank or holding the delimiter '|',
\* gives the text that was hashed for this host (the hash is taken as collision-free).
C27_FingerprintInjective ==
    /\ result.op = "generate" =>
          \A other \in HostTuples \ {machine} : Generate(other) # result.value[1]
    /\ result.op = "generate_fingerprint" =>
          \A other \in HostTuples6 \ {machine} :
              generate_fingerprint(other) # result.value[1]

\* the cached license is the active row of highest id of the rows, or empty without one
CacheAgrees(rows, l) ==
    IF ActiveRow(rows) = <<>> THEN l = <<>> ELSE l = _load_license(rows, <<>>)

\* C28: after every activate, start_trial, revoke_license or check_remote_revocation
\* call, returned or raised, the cached license agrees with the license table (as the
\* connection sees it or as committed): it is the table's active row when there is
\* one and empty otherwise, and is_valid is not true without an active row.
C28_CacheAgreesWithStore ==
    result.op \in {"activate", "start_trial", "revoke_license", "check_remote_revocation"}
    => /\ CacheAgrees(db, lic) \/ CacheAgrees(disk, lic)
       /\ IsValid => (ActiveRow(db) # <<>> \/ ActiveRow(disk) # <<>>)

====
